---- MODULE Spec2Model ----
(***************************************************************************)
(* Model of examples/sample_c.c: main -> calculate -> helper -> display,   *)
(* four functions guarded by assert().                                     *)
(*                                                                         *)
(* The program counter pc names the source line about to run.  A run      *)
(* starts in one of the four functions (entry) with argument arg; for      *)
(* entry = "main", arg is the value main hands to calculate (the shipped   *)
(* program is the instance arg = MainArg).                                 *)
(*                                                                         *)
(* int is a W-bit two's-complement integer.  Signed overflow is undefined  *)
(* behaviour in C, so the model carries the outcomes a build can produce   *)
(* in the variable build:                                                  *)
(*   "wrapv" : the arithmetic wraps and every assert is evaluated on the   *)
(*             wrapped value (-fwrapv, or an unoptimised build);           *)
(*   "trapv" : the overflowing operation traps and the process aborts      *)
(*             there (-ftrapv, a sanitizer);                               *)
(*   "fold"  : the optimiser assumes the overflow does not happen, the     *)
(*             hardware wraps, and an assert reached after the overflow    *)
(*             has been folded to true.                                    *)
(***************************************************************************)
EXTENDS Integers, Sequences, FiniteSets, TLC

\* Width of int in bits (a bound of the model; the real int has 32).
W == 6

\* The argument main passes to calculate.
MainArg == 10

\* The constant helper adds.
HelperAddend == 5

\* The factor calculate multiplies by.
CalcFactor == 2

RECURSIVE Pow2(_)
Pow2(n) == IF n = 0 THEN 1 ELSE 2 * Pow2(n - 1)

MaxInt == Pow2(W - 1) - 1
MinInt == 0 - Pow2(W - 1)
IntRange == MinInt .. MaxInt

Representable(v) == v >= MinInt /\ v <= MaxInt

\* Two's-complement wraparound of the mathematical value v into W bits.
Wrap(v) == ((v - MinInt) % Pow2(W)) + MinInt

Builds == {"wrapv", "trapv", "fold"}
Entries == {"main", "calculate", "helper", "display"}

EntryPc(e) ==
    CASE e = "main"      -> "main_19"
      [] e = "calculate" -> "calc_33"
      [] e = "helper"    -> "help_49"
      [] e = "display"   -> "disp_62"

VARIABLES
    build,        \* how the build treats signed overflow
    entry,        \* the function the run starts in
    arg,          \* its argument (for main: the argument given to calculate)
    pc,           \* the source line about to run, or "returned"/"exited"/"aborted"
    stack,        \* return addresses, innermost first
    retval,       \* <<v>> after a function returned v, <<>> otherwise
    main_result,  \* main: result
    calc_x,       \* calculate: x
    calc_temp,    \* calculate: temp
    calc_result,  \* calculate: result
    help_x,       \* helper: x
    help_result,  \* helper: result
    disp_value,   \* display: value
    stdout,       \* the characters written to standard output
    exitCode,     \* <<0>> once main returned 0, <<>> otherwise
    failed,       \* the assert that evaluated to false ("" if none)
    poison        \* a signed overflow has happened

vars == <<build, entry, arg, pc, stack, retval, main_result, calc_x, calc_temp,
          calc_result, help_x, help_result, disp_value, stdout, exitCode,
          failed, poison>>

locals == <<main_result, calc_x, calc_temp, calc_result, help_x, help_result,
            disp_value>>

----------------------------------------------------------------------------
DigitChar == <<"0", "1", "2", "3", "4", "5", "6", "7", "8", "9">>

\* printf("%d"): the decimal digits of a non-negative n, most significant first.
RECURSIVE Digits(_)
Digits(n) ==
    IF n < 10
      THEN <<DigitChar[n + 1]>>
      ELSE Digits(n \div 10) \o <<DigitChar[(n % 10) + 1]>>

\* printf("%d", v): a minus sign for a negative v, then the digits of |v|.
FormatInt(v) == IF v < 0 THEN <<"-">> \o Digits(0 - v) ELSE Digits(v)

\* Format without the trailing newline.
Format_noNewline(value) ==
    <<"R", "e", "s", "u", "l", "t", ":", " ">> \o FormatInt(value)

\* printf("Result: %d\n", value)
Format(value) ==
    <<"R", "e", "s", "u", "l", "t", ":", " ">> \o FormatInt(value) \o <<"\n">>

----------------------------------------------------------------------------
\* The expressions and conditions of the source.

\* helper subtracting instead of adding.
HelperExpr_sub(x) == x - HelperAddend

\* helper: x + 5
HelperExpr(x) == x + HelperAddend

\* calculate adding the factor instead of multiplying by it.
CalcExpr_add(temp) == temp + CalcFactor

\* calculate: temp * 2
CalcExpr(temp) == temp * CalcFactor

\* calculate's precondition off by one: zero accepted.
CalcPre_ge(x) == x >= 0

\* calculate: assert(x > 0)
CalcPre(x) == x > 0

\* calculate without its postcondition check.
CalcPost_none(result, x) == TRUE

\* calculate: assert(result > x)
CalcPost(result, x) == result > x

\* helper's postcondition demanding more than the addend gives.
HelperPost_strict(result, x) == result > x + HelperAddend

\* helper: assert(result > x)
HelperPost(result, x) == result > x

\* display: assert(value >= 0)
DisplayPost(value) == value >= 0

\* main: assert(result > 0)
MainPost(result) == result > 0

----------------------------------------------------------------------------
\* The building blocks of a step.

\* What an assert's condition comes to in this build: after a signed overflow
\* a "fold" build has the assert compiled to true.
Holds(cond) == cond \/ (build = "fold" /\ poison)

\* An assert that records the failure and lets the program go on.
Check_continue(cond, here, next) ==
    /\ pc' = next
    /\ failed' = IF Holds(cond) THEN failed ELSE here

\* assert(cond) at line `here`: go on to `next`, or abort the process.
Check(cond, here, next) ==
    IF Holds(cond)
      THEN pc' = next /\ failed' = failed
      ELSE pc' = "aborted" /\ failed' = here

\* return v (v = <<>> for a void function): back to the caller, or the run
\* of the entry function is over.
Return(v) ==
    /\ retval' = v
    /\ IF stack = <<>>
         THEN pc' = "returned" /\ stack' = stack
         ELSE pc' = Head(stack) /\ stack' = Tail(stack)

\* A call: push the return address and jump to the callee's first line.
Call(callee, ret) ==
    /\ stack' = <<ret>> \o stack
    /\ pc' = callee

\* Does an int operation whose mathematical value is v trap in this build?
Traps(v) == ~Representable(v) /\ build = "trapv"

----------------------------------------------------------------------------
Init ==
    /\ build \in Builds
    /\ entry \in Entries
    /\ arg \in IntRange
    /\ pc = EntryPc(entry)
    /\ stack = <<>>
    /\ retval = <<>>
    /\ main_result = 0
    /\ calc_x = IF entry = "calculate" THEN arg ELSE 0
    /\ calc_temp = 0
    /\ calc_result = 0
    /\ help_x = IF entry = "helper" THEN arg ELSE 0
    /\ help_result = 0
    /\ disp_value = IF entry = "display" THEN arg ELSE 0
    /\ stdout = <<>>
    /\ exitCode = <<>>
    /\ failed = ""
    /\ poison = FALSE

\* main, line 19: the call calculate(arg)
Main_19 ==
    /\ pc = "main_19"
    /\ calc_x' = arg
    /\ Call("calc_33", "main_19r")
    /\ UNCHANGED <<build, entry, arg, retval, main_result, calc_temp, calc_result,
                   help_x, help_result, disp_value, stdout, exitCode, failed, poison>>

\* main, line 19: int result = <the value calculate returned>
Main_19r ==
    /\ pc = "main_19r"
    /\ main_result' = retval[1]
    /\ pc' = "main_20"
    /\ UNCHANGED <<build, entry, arg, stack, retval, calc_x, calc_temp, calc_result,
                   help_x, help_result, disp_value, stdout, exitCode, failed, poison>>

\* main, line 20: display(result)
Main_20 ==
    /\ pc = "main_20"
    /\ disp_value' = main_result
    /\ Call("disp_62", "main_22")
    /\ UNCHANGED <<build, entry, arg, retval, main_result, calc_x, calc_temp,
                   calc_result, help_x, help_result, stdout, exitCode, failed, poison>>

\* main, line 22: assert(result > 0)
Main_22 ==
    /\ pc = "main_22"
    /\ Check(MainPost(main_result), "main_22", "main_23")
    /\ UNCHANGED <<build, entry, arg, stack, retval, locals, stdout, exitCode, poison>>

\* main, line 23: return 0
Main_23 ==
    /\ pc = "main_23"
    /\ pc' = "exited"
    /\ exitCode' = <<0>>
    /\ UNCHANGED <<build, entry, arg, stack, retval, locals, stdout, failed, poison>>

\* calculate, line 33: assert(x > 0)
Calc_33 ==
    /\ pc = "calc_33"
    /\ Check(CalcPre(calc_x), "calc_33", "calc_35")
    /\ UNCHANGED <<build, entry, arg, stack, retval, locals, stdout, exitCode, poison>>

\* calculate, line 35: the call helper(x)
Calc_35 ==
    /\ pc = "calc_35"
    /\ help_x' = calc_x
    /\ Call("help_49", "calc_35r")
    /\ UNCHANGED <<build, entry, arg, retval, main_result, calc_x, calc_temp,
                   calc_result, help_result, disp_value, stdout, exitCode, failed,
                   poison>>

\* calculate, line 35: int temp = <the value helper returned>
Calc_35r ==
    /\ pc = "calc_35r"
    /\ calc_temp' = retval[1]
    /\ pc' = "calc_36"
    /\ UNCHANGED <<build, entry, arg, stack, retval, main_result, calc_x, calc_result,
                   help_x, help_result, disp_value, stdout, exitCode, failed, poison>>

\* calculate, line 36: int result = temp * 2
Calc_36 ==
    /\ pc = "calc_36"
    /\ IF Traps(CalcExpr(calc_temp))
         THEN pc' = "aborted" /\ UNCHANGED <<calc_result, poison>>
         ELSE /\ calc_result' = Wrap(CalcExpr(calc_temp))
              /\ poison' = (poison \/ ~Representable(CalcExpr(calc_temp)))
              /\ pc' = "calc_38"
    /\ UNCHANGED <<build, entry, arg, stack, retval, main_result, calc_x, calc_temp,
                   help_x, help_result, disp_value, stdout, exitCode, failed>>

\* calculate, line 38: assert(result > x)
Calc_38 ==
    /\ pc = "calc_38"
    /\ Check(CalcPost(calc_result, calc_x), "calc_38", "calc_39")
    /\ UNCHANGED <<build, entry, arg, stack, retval, locals, stdout, exitCode, poison>>

\* calculate, line 39: return result
Calc_39 ==
    /\ pc = "calc_39"
    /\ Return(<<calc_result>>)
    /\ UNCHANGED <<build, entry, arg, locals, stdout, exitCode, failed, poison>>

\* helper, line 49: int result = x + 5
Help_49 ==
    /\ pc = "help_49"
    /\ IF Traps(HelperExpr(help_x))
         THEN pc' = "aborted" /\ UNCHANGED <<help_result, poison>>
         ELSE /\ help_result' = Wrap(HelperExpr(help_x))
              /\ poison' = (poison \/ ~Representable(HelperExpr(help_x)))
              /\ pc' = "help_51"
    /\ UNCHANGED <<build, entry, arg, stack, retval, main_result, calc_x, calc_temp,
                   calc_result, help_x, disp_value, stdout, exitCode, failed>>

\* helper, line 51: assert(result > x)
Help_51 ==
    /\ pc = "help_51"
    /\ Check(HelperPost(help_result, help_x), "help_51", "help_52")
    /\ UNCHANGED <<build, entry, arg, stack, retval, locals, stdout, exitCode, poison>>

\* helper, line 52: return result
Help_52 ==
    /\ pc = "help_52"
    /\ Return(<<help_result>>)
    /\ UNCHANGED <<build, entry, arg, locals, stdout, exitCode, failed, poison>>

\* display validating before it prints.
Disp_62_checkFirst ==
    /\ pc = "disp_62"
    /\ IF DisplayPost(disp_value)
         THEN /\ stdout' = stdout \o Format(disp_value)
              /\ pc' = "disp_63"
              /\ failed' = failed
         ELSE /\ stdout' = stdout
              /\ pc' = "aborted"
              /\ failed' = "disp_63"
    /\ UNCHANGED <<build, entry, arg, stack, retval, locals, exitCode, poison>>

\* display, line 62: printf("Result: %d\n", value)
Disp_62 ==
    /\ pc = "disp_62"
    /\ stdout' = stdout \o Format(disp_value)
    /\ pc' = "disp_63"
    /\ UNCHANGED <<build, entry, arg, stack, retval, locals, exitCode, failed, poison>>

\* display, line 63: assert(value >= 0)
Disp_63 ==
    /\ pc = "disp_63"
    /\ Check(DisplayPost(disp_value), "disp_63", "disp_64")
    /\ UNCHANGED <<build, entry, arg, stack, retval, locals, stdout, exitCode, poison>>

\* display, line 64: the end of the void function
Disp_64 ==
    /\ pc = "disp_64"
    /\ Return(<<>>)
    /\ UNCHANGED <<build, entry, arg, locals, stdout, exitCode, failed, poison>>

Next ==
    \/ Main_19 \/ Main_19r \/ Main_20 \/ Main_22 \/ Main_23
    \/ Calc_33 \/ Calc_35 \/ Calc_35r \/ Calc_36 \/ Calc_38 \/ Calc_39
    \/ Help_49 \/ Help_51 \/ Help_52
    \/ Disp_62 \/ Disp_63 \/ Disp_64

Spec == Init /\ [][Next]_vars

\* The program is one sequential thread: a step that can run does run.
FairSpec == Spec /\ WF_vars(Next)

----------------------------------------------------------------------------
\* The run is over.
Terminal == pc \in {"returned", "exited", "aborted"}

TypeOK ==
    /\ build \in Builds /\ entry \in Entries /\ arg \in IntRange
    /\ main_result \in IntRange /\ calc_x \in IntRange /\ calc_temp \in IntRange
    /\ calc_result \in IntRange /\ help_x \in IntRange /\ help_result \in IntRange
    /\ disp_value \in IntRange
    /\ Len(retval) <= 1 /\ Len(stack) <= 2
    /\ poison \in BOOLEAN

----------------------------------------------------------------------------
\* The line "Result: 30\n".
Line30 == <<"R", "e", "s", "u", "l", "t", ":", " ", "3", "0", "\n">>

\* The line "Result: -1\n".
LineMinus1 == <<"R", "e", "s", "u", "l", "t", ":", " ", "-", "1", "\n">>

\* The shipped program: main, which passes MainArg to calculate.
MainRun == entry = "main" /\ arg = MainArg

\* C1: every run of the program (main passing 10) terminates normally: no
\* assert fails, the only output is the one line "Result: 30\n", and main
\* returns exit code 0.
C1_MainRunExitsZero ==
    /\ [](MainRun =>
            /\ failed = ""
            /\ pc # "aborted"
            /\ (stdout = <<>> \/ stdout = Line30)
            /\ (exitCode = <<0>> <=> pc = "exited")
            /\ (pc = "exited" => stdout = Line30))
    /\ (MainRun ~> (pc = "exited" /\ exitCode = <<0>> /\ stdout = Line30))

C1_Witness ==
    MainRun /\ pc = "exited" /\ exitCode = <<0>> /\ stdout = Line30 /\ failed = ""

\* C2 (as amended): for every x > 0 whose (x + 5) * 2 is representable in
\* int, calculate(x) does not abort and returns (x + 5) * 2.
C2_CalculateInRange ==
    (entry = "calculate" /\ arg > 0 /\ Representable((arg + 5) * 2)) =>
        /\ pc # "aborted"
        /\ (pc = "returned" => retval = <<(arg + 5) * 2>>)
        /\ (Terminal \/ ENABLED Next)

C2_Witness ==
    entry = "calculate" /\ arg = 3 /\ pc = "returned" /\ retval = <<16>>

\* C2 (as stated): for every x > 0, calculate(x) returns (x + 5) * 2.
C2_AsStated ==
    (entry = "calculate" /\ arg > 0) =>
        /\ pc # "aborted"
        /\ (pc = "returned" => retval = <<(arg + 5) * 2>>)

\* C3 (as amended): for every x > 0 whose x + 5 is representable in int,
\* helper(x) does not abort, returns x + 5, writes no output and changes
\* nothing outside its own frame.
C3_HelperInRange ==
    (entry = "helper" /\ arg > 0 /\ Representable(arg + 5)) =>
        /\ pc # "aborted"
        /\ (pc = "returned" => retval = <<arg + 5>>)
        /\ (Terminal \/ ENABLED Next)
        /\ stdout = <<>> /\ exitCode = <<>> /\ stack = <<>>
        /\ main_result = 0 /\ calc_x = 0 /\ calc_temp = 0 /\ calc_result = 0
        /\ disp_value = 0 /\ help_x = arg

C3_Witness ==
    entry = "helper" /\ arg = 7 /\ pc = "returned" /\ retval = <<12>> /\ stdout = <<>>

\* C3 (as stated): for every positive x, helper(x) returns x + 5 with no
\* side effect.
C3_AsStated ==
    (entry = "helper" /\ arg > 0) =>
        /\ pc # "aborted"
        /\ (pc = "returned" => retval = <<arg + 5>>)
        /\ stdout = <<>>

\* C4: for every x <= 0, calculate(x) aborts at its precondition check: it
\* never gets past line 33, returns no value, helper is not entered and
\* nothing is printed.
C4_CalculateRejectsNonPositive ==
    (entry = "calculate" /\ arg <= 0) =>
        /\ pc \in {"calc_33", "aborted"}
        /\ (pc = "aborted" => failed = "calc_33")
        /\ (pc = "calc_33" => ENABLED Calc_33)
        /\ retval = <<>> /\ stack = <<>> /\ stdout = <<>>
        /\ help_x = 0 /\ help_result = 0 /\ ~poison

C4_Witness ==
    entry = "calculate" /\ arg = 0 /\ pc = "aborted" /\ failed = "calc_33"
        /\ stdout = <<>> /\ retval = <<>>

\* C5: display prints "Result: <value>\n" first and checks value >= 0
\* afterwards: the line is on standard output whenever the check runs, a
\* value >= 0 (30) prints and returns, a value < 0 (-1) has its line printed
\* when the check aborts the process.
C5_DisplayPrintsThenChecks ==
    /\ (pc \in {"disp_63", "disp_64"} => stdout = Format(disp_value))
    /\ (failed = "disp_63" => stdout = Format(disp_value) /\ disp_value < 0)
    /\ (entry = "display" =>
          /\ (pc = "disp_62" => stdout = <<>>)
          /\ (pc = "returned" => arg >= 0 /\ stdout = Format(arg))
          /\ (pc = "aborted" => arg < 0 /\ failed = "disp_63" /\ stdout = Format(arg))
          /\ (Terminal /\ arg = 30 => pc = "returned" /\ stdout = Line30)
          /\ (Terminal /\ arg = -1 => pc = "aborted" /\ stdout = LineMinus1)
          /\ (Terminal \/ ENABLED Next))

C5_Witness ==
    entry = "display" /\ arg = -1 /\ pc = "aborted" /\ failed = "disp_63"
        /\ stdout = LineMinus1

\* C6: fail-fast: once an assert has evaluated to false the process is
\* aborted at that assert; no further step runs (so nothing more is returned
\* or printed) and exit code 0 is never produced.
C6_FailFast ==
    /\ [](failed # "" => pc = "aborted" /\ exitCode = <<>>)
    /\ [][failed # "" => UNCHANGED vars]_vars
    /\ [][failed = "" /\ failed' # "" =>
            /\ failed' = pc
            /\ pc' = "aborted"
            /\ stdout' = stdout /\ retval' = retval /\ exitCode' = exitCode
            /\ stack' = stack /\ locals' = locals]_vars

C6_Witness ==
    entry = "main" /\ failed = "help_51" /\ pc = "aborted" /\ stack # <<>>
        /\ exitCode = <<>>

\* C7: per the comment in calculate, the function requires x > 0 and on
\* return its result is x * 2.
C7_CommentContract ==
    (entry = "calculate" /\ pc = "returned") => (arg > 0 /\ retval = <<arg * 2>>)

\* C8: helper's check result > x fails only on overflow: when x + 5 is
\* representable the check passes and helper goes on to return x + 5; a
\* failure of the check implies that x + 5 overflowed.
C8_HelperPostFailsOnlyOnOverflow ==
    /\ (failed = "help_51" => ~Representable(help_x + 5))
    /\ (pc = "help_51" /\ Representable(help_x + 5) =>
            help_result = help_x + 5 /\ help_result > help_x /\ ENABLED Help_51)
    /\ (pc = "help_52" /\ Representable(help_x + 5) => help_result = help_x + 5)
    /\ (entry = "helper" /\ Representable(arg + 5) => pc # "aborted")

C8_Witness ==
    failed = "help_51" /\ ~Representable(help_x + 5) /\ help_x > 0

\* C9: with wrapping int arithmetic and x > 0, an overflow of x + 5 fails
\* helper's check and an overflow of (x + 5) * 2 fails calculate's check;
\* so a value calculate returns is the mathematical (x + 5) * 2 and > x.
C9_WrapOverflowIsCaught ==
    (build = "wrapv" /\ entry = "calculate" /\ arg > 0) =>
        /\ (pc = "returned" =>
              /\ retval = <<(arg + 5) * 2>>
              /\ retval[1] > arg
              /\ ~poison)
        /\ (poison /\ ~Representable(arg + 5) =>
              pc = "help_51" \/ (pc = "aborted" /\ failed = "help_51"))
        /\ (poison /\ Representable(arg + 5) =>
              /\ ~Representable((arg + 5) * 2)
              /\ pc = "calc_38" \/ (pc = "aborted" /\ failed = "calc_38"))
        /\ (~Representable((arg + 5) * 2) /\ Terminal => pc = "aborted" /\ poison)

C9_Witness ==
    build = "wrapv" /\ entry = "calculate" /\ arg > 0 /\ Representable(arg + 5)
        /\ pc = "aborted" /\ failed = "calc_38"

====
